---- MODULE Spec2Model ----
(***************************************************************************)
(* Model of src/server.js: the express middleware installed by serve()     *)
(* (tenant resolution, analytics insert, static fallback) and the homepage *)
(* composer (sections query, per-section project queries, Promise.all      *)
(* gather, set_content, send).                                             *)
(*                                                                         *)
(* Strings are TLA+ strings; a nullable column value is a sequence of      *)
(* zero (SQL NULL) or one string.  Node runs one callback at a time, so    *)
(* each action is one callback together with the microtasks it schedules.  *)
(* Queries issued with db.query complete in any order, which includes the  *)
(* order in which they were issued.  A callback that throws is caught by   *)
(* nothing, and the process ends.                                          *)
(***************************************************************************)
EXTENDS Integers, Sequences, FiniteSets, Bags, TLC

VARIABLES
    traffic,    \* the requests clients send: records of ip, hostname, path
    fs,         \* the filesystem: path |-> content
    sections,   \* the sections table, rows in the order a select returns them
    projects,   \* the projects table
    analytics,  \* the analytics table, a bag of rows
    alive,      \* the Node process is running
    req         \* the requests: slot |-> position and locals of its handler

vars == <<traffic, fs, sections, projects, analytics, alive, req>>

(* ------------------------------ bounds -------------------------------- *)
MaxReq == 2
MaxSections == 2
MaxProjects == 2

(* ------------------------- values and helpers ------------------------- *)
NULL == <<>>

Some(s) == <<s>>

\* JavaScript truthiness of a nullable string column: null and "" are falsy
Truthy(v) == v # NULL /\ v[1] # ""

\* `${v}` in a template literal
Str(v) == IF v = NULL THEN "null" ELSE v[1]

\* position of the first occurrence of the string p in s at or after i, or 0
Find(s, p, i) ==
    LET hits == {k \in i..(Len(s) - Len(p) + 1) : SubSeq(s, k, k + Len(p) - 1) = p}
    IN  IF hits = {} THEN 0 ELSE CHOOSE k \in hits : \A j \in hits : k <= j

\* req.hostname.split(".")[0]
FirstLabel(hostname) ==
    LET d == Find(hostname, ".", 1)
    IN  IF d = 0 THEN hostname ELSE SubSeq(hostname, 1, d - 1)

\* path.join(a, b) for a plain directory name a and a single label b
PathJoin(a, b) == IF b = "" THEN a ELSE a \o "/" \o b

\* fs.existsSync(p)
ExistsSync(p) == p \in DOMAIN fs

RECURSIVE Join(_, _)
\* Array.prototype.join
Join(parts, sep) ==
    IF Len(parts) = 0 THEN ""
    ELSE IF Len(parts) = 1 THEN parts[1]
    ELSE parts[1] \o sep \o Join(Tail(parts), sep)

\* rows of a table that satisfy a predicate, in table order
RECURSIVE SelectWhere(_, _)
SelectWhere(table, sid) ==
    IF table = <<>> THEN <<>>
    ELSE IF Head(table).section = sid
         THEN <<Head(table)>> \o SelectWhere(Tail(table), sid)
         ELSE SelectWhere(Tail(table), sid)

(* --------------------------- request inputs --------------------------- *)
SelfIp == "::1"

Reserved == {"jessesolomon", "localhost"}

Ips == {"::1", "10.0.0.7"}

Hostnames == {"localhost", "jessesolomon.dev", "blog.example.com",
              "nope.example.com", ".example.com"}

Paths == {"/", "/a.css"}

(* ----------------------------- filesystem ----------------------------- *)
OpenTag == "<div id=\"sections\">"

CloseTag == "</div>"

TemplateWith == "<body><div id=\"sections\">old</div></body>"

TemplateWithout == "<body><p>hi</p></body>"

\* the default root, the apps root with the tenant "blog" (whose template
\* has no #sections element), and a directory apps/localhost
InitialFs ==
    [p \in {"public", "public/index.html", "public/a.css", "apps",
            "apps/blog", "apps/blog/index.html", "apps/localhost"} |->
        CASE p = "public/index.html" -> TemplateWith
          [] p = "apps/blog/index.html" -> TemplateWithout
          [] p = "public/a.css" -> "body{}"
          [] OTHER -> "<dir>"]

\* htmlParser.parse(html) and document.querySelector("#sections"): the
\* document is the text before the element's content, the content, and the
\* text after it
Parse(html) ==
    LET o == Find(html, OpenTag, 1)
        c == IF o = 0 THEN 0 ELSE Find(html, CloseTag, o + Len(OpenTag))
    IN  IF o = 0 \/ c = 0
        THEN [before |-> html, inner |-> "", after |-> "",
              sectionsElement |-> FALSE]
        ELSE [before |-> SubSeq(html, 1, o + Len(OpenTag) - 1),
              inner |-> SubSeq(html, o + Len(OpenTag), c - 1),
              after |-> SubSeq(html, c, Len(html)),
              sectionsElement |-> TRUE]

\* sectionsElement.set_content(content)
SetContent(document, content) == [document EXCEPT !.inner = content]

\* document.innerHTML
InnerHTML(document) == document.before \o document.inner \o document.after

NoDocument == Parse("")

(* ------------------------------ database ------------------------------ *)
SectionTitle(id) == IF id = 1 THEN "Tools" ELSE IF id = 2 THEN "Games" ELSE "Misc"

SectionRow(id) == [id |-> id, title |-> Some(SectionTitle(id))]

\* tables of at most MaxSections rows, the newest section first, so that
\* neither the ids nor the titles are in ascending order
SectionTables ==
    {[i \in 1..n |-> SectionRow(n + 1 - i)] : n \in 0..MaxSections}

\* the combinations of repo and url a projects row can hold
ProjectKinds ==
    <<[title |-> Some("Widget"), url |-> Some("http://w"), repo |-> NULL],
      [title |-> Some("Gadget"), url |-> Some("http://u"), repo |-> Some("http://g")],
      [title |-> Some("Plain"), url |-> NULL, repo |-> NULL],
      [title |-> Some("Gizmo"), url |-> NULL, repo |-> Some("http://r")],
      [title |-> Some("Blank"), url |-> Some(""), repo |-> Some("")]>>

ProjectRow(id, sid, k) ==
    [id |-> id, section |-> sid, title |-> k.title, url |-> k.url, repo |-> k.repo]

\* tables of at most MaxProjects rows, ids in table order: one row of any
\* kind in section 1, or several rows of consecutive kinds that are all in
\* section 1 or spread one per section
ProjectTables ==
    LET kind(i, first) == ProjectKinds[((first + i - 2) % Len(ProjectKinds)) + 1]
        owner(i, spread) == IF spread THEN ((i - 1) % MaxSections) + 1 ELSE 1
        table(m, spread, first) ==
            [i \in 1..m |-> ProjectRow(i, owner(i, spread), kind(i, first))]
    IN  {table(1, FALSE, first) : first \in DOMAIN ProjectKinds}
          \cup {table(m, spread, 1) : m \in 0..MaxProjects, spread \in BOOLEAN}

\* db.escape(ip + "@" + hostname + path)
Hash(ip, hostname, path) == ip \o "@" \o hostname \o path

\* the row written by the insert of line 96
AnalyticsRow(r) ==
    [hash |-> Hash(r.ip, r.hostname, r.path), url |-> r.hostname \o r.path]

\* the unique keys of the analytics table as created at line 81: none
AnalyticsUniqueKey == FALSE

\* insert ignore into analytics: a row is skipped only when it duplicates a
\* unique key of the table
InsertIgnore(table, row) ==
    IF AnalyticsUniqueKey /\ \E t \in BagToSet(table) : t.hash = row.hash
    THEN table
    ELSE table (+) SetToBag({row})

(* ------------------------- fragment rendering ------------------------- *)
\* line 109
Heading(section) == "<h2>" \o Str(section.title) \o "</h2>"

\* the two links appended in the other order
ProjectItemUrlFirst(project) ==
    LET title == "<span>" \o Str(project.title) \o "</span>"
        repo == IF Truthy(project.repo)
                THEN "<a class=\"github\" href=\"" \o Str(project.repo) \o "\" target=\"_blank\">"
                ELSE ""
        url == IF Truthy(project.url)
               THEN "<a class=\"link\" href=\"" \o Str(project.url) \o "\"></a>"
               ELSE ""
    IN  "<li><div class=\"wrapper\">" \o title \o url \o repo \o "</div></li>"

\* lines 116-120: one list item
ProjectItem(project) ==
    LET title == "<span>" \o Str(project.title) \o "</span>"
        repo == IF Truthy(project.repo)
                THEN "<a class=\"github\" href=\"" \o Str(project.repo) \o "\" target=\"_blank\">"
                ELSE ""
        url == IF Truthy(project.url)
               THEN "<a class=\"link\" href=\"" \o Str(project.url) \o "\"></a>"
               ELSE ""
    IN  "<li><div class=\"wrapper\">" \o title \o repo \o url \o "</div></li>"

RECURSIVE ProjectItems(_)
\* the for loop of lines 115-121
ProjectItems(rows) ==
    IF rows = <<>> THEN "" ELSE ProjectItem(Head(rows)) \o ProjectItems(Tail(rows))

\* the list markup appended whether or not there are projects
FragmentAlwaysList(html, rows) ==
    html \o "<ul class=\"projects\">" \o ProjectItems(rows) \o "</ul>"

\* lines 112-126: the value the section's promise resolves with, html being
\* the heading built at line 109
Fragment(html, rows) ==
    IF Len(rows) # 0
    THEN html \o "<ul class=\"projects\">" \o ProjectItems(rows) \o "</ul>"
    ELSE html

(* ------------------------------ requests ------------------------------ *)
Requests == 1..MaxReq

Idle ==
    [pc |-> "idle", ip |-> "", hostname |-> "", path |-> "",
     ins |-> "none", dir |-> NULL, document |-> NoDocument,
     secs |-> <<>>, rows |-> <<>>, html |-> <<>>, pending |-> {},
     order |-> <<>>, selects |-> 0,
     status |-> 0, ctype |-> "", body |-> "", sent |-> 0]

\* every request is recorded
ShouldRecordAlways(r) == TRUE

\* line 95
ShouldRecord(r) == r.ip # SelfIp

\* the apps directory is tried before the reserved names
ResolveAppsFirst(domain) ==
    LET appPath == PathJoin("apps", domain)
    IN  IF ExistsSync(appPath) THEN Some(appPath)
        ELSE IF domain \in Reserved THEN Some("public")
        ELSE NULL

\* the tenant directories are those found when the server started
ResolveAtStartup(domain) ==
    IF domain \in Reserved THEN Some("public")
    ELSE LET appPath == PathJoin("apps", domain)
         IN  IF appPath \in DOMAIN InitialFs THEN Some(appPath) ELSE NULL

\* lines 143-156: the content root, or NULL when the request is rejected
Resolve(domain) ==
    IF domain \in Reserved THEN Some("public")
    ELSE LET appPath == PathJoin("apps", domain)
         IN  IF ExistsSync(appPath) THEN Some(appPath) ELSE NULL

\* only the query of the first section is issued when the sections arrive
FanOutOneAtATime(secs) == IF secs = <<>> THEN {} ELSE {1}

\* line 108, sections.map: the positions of the sections for which a promise
\* is created and its project query issued, before the callback returns
FanOut(secs) == 1..Len(secs)

\* the promise settles as soon as one fragment has resolved
AnyResolved(r) == r.order # <<>>

\* line 130: Promise.all(sectionContent) resolves when every promise of the
\* array has resolved (at once for an empty array)
AllResolved(r) == r.pending = {}

\* the fragments are kept in one place shared by all requests, where the
\* oldest request put them
PromiseAllShared(r) == req[1].html

\* the resolved values in the order the promises resolved
PromiseAllByCompletion(r) == [k \in 1..Len(r.order) |-> r.html[r.order[k]]]

\* Promise.all(sectionContent): the resolved values in the order of the
\* array of promises, that is of the sections
PromiseAll(r) == r.html

\* the content is set and the document is not sent
GatherWithoutSend(r) ==
    IF r.document.sectionsElement
    THEN LET document == SetContent(r.document, Join(PromiseAll(r), "<br/>"))
         IN  [r EXCEPT !.pc = "done", !.document = document]
    ELSE [r EXCEPT !.pc = "rejected"]

\* a template without the container is sent as it is
GatherLenient(r) ==
    LET document == IF r.document.sectionsElement
                    THEN SetContent(r.document, Join(PromiseAll(r), "<br/>"))
                    ELSE r.document
    IN  [r EXCEPT !.pc = "done", !.document = document, !.status = 200, !.sent = @ + 1,
                  !.ctype = "text/html", !.body = InnerHTML(document)]

\* nothing is sent when there is no fragment to join
GatherNonEmpty(r) ==
    IF Len(r.html) = 0 THEN r
    ELSE IF r.document.sectionsElement
    THEN LET document == SetContent(r.document, Join(PromiseAll(r), "<br/>"))
         IN  [r EXCEPT !.pc = "done", !.document = document, !.status = 200, !.sent = @ + 1,
                       !.ctype = "text/html", !.body = InnerHTML(document)]
    ELSE [r EXCEPT !.pc = "rejected"]

\* lines 130-134, run when every promise of sectionContent has resolved
Gather(r) ==
    IF r.document.sectionsElement
    THEN LET document == SetContent(r.document, Join(PromiseAll(r), "<br/>"))
         IN  [r EXCEPT !.pc = "done", !.document = document, !.status = 200, !.sent = @ + 1,
                       !.ctype = "text/html", !.body = InnerHTML(document)]
    ELSE [r EXCEPT !.pc = "rejected"]

\* the homepage is composed whatever the path is
StaticHandlerAnyPath(r, dir) ==
    LET r1 == [r EXCEPT !.dir = Some(dir)]
        index == dir \o "/index.html"
    IN  IF ExistsSync(index)
        THEN [r1 EXCEPT !.pc = "sections", !.document = Parse(fs[index]),
                        !.selects = 1]
        ELSE [r1 EXCEPT !.pc = "done", !.status = 500, !.sent = @ + 1, !.body = "<error>"]

\* lines 100-140
StaticHandler(r, dir) ==
    LET r1 == [r EXCEPT !.dir = Some(dir)]
        index == dir \o "/index.html"
        file == dir \o r.path
    IN  IF r.path = "/"
        THEN IF ExistsSync(index)
             THEN [r1 EXCEPT !.pc = "sections", !.document = Parse(fs[index]),
                             !.selects = 1]
             ELSE \* readFileSync throws; express answers 500
                  [r1 EXCEPT !.pc = "done", !.status = 500, !.sent = @ + 1, !.body = "<error>"]
        ELSE \* express.static(dir)
             IF ExistsSync(file) /\ fs[file] # "<dir>"
             THEN [r1 EXCEPT !.pc = "static", !.status = 200, !.sent = @ + 1, !.body = fs[file]]
             ELSE [r1 EXCEPT !.pc = "static", !.status = 404, !.sent = @ + 1, !.body = "<not found>"]

\* the insert is issued only once the tenant is resolved
MiddlewareRecordResolved(r) ==
    LET domain == FirstLabel(r.hostname)
        root == Resolve(domain)
        r1 == [r EXCEPT !.ins = IF ShouldRecord(r) /\ root # NULL THEN "pending" ELSE "none"]
    IN  IF root # NULL
        THEN StaticHandler(r1, root[1])
        ELSE [r1 EXCEPT !.pc = "done", !.status = 404, !.sent = @ + 1, !.body = ""]

\* lines 92-157: the middleware, run to its return
Middleware(r) ==
    LET domain == FirstLabel(r.hostname)
        r1 == [r EXCEPT !.ins = IF ShouldRecord(r) THEN "pending" ELSE "none"]
        root == Resolve(domain)
    IN  IF root # NULL
        THEN StaticHandler(r1, root[1])
        ELSE [r1 EXCEPT !.pc = "done", !.status = 404, !.sent = @ + 1, !.body = ""]

TypeOK ==
    /\ alive \in BOOLEAN
    /\ DOMAIN req = Requests

\* every request the model sends
AllTraffic == [ip : Ips, hostname : Hostnames, path : Paths]

\* root requests to the default tenant, sent from the server's own host
RootTraffic == {[ip |-> SelfIp, hostname |-> "localhost", path |-> "/"]}

\* the state when serve() has installed the middleware
Started ==
    /\ fs = InitialFs
    /\ analytics = EmptyBag
    /\ alive = TRUE
    /\ req = [i \in Requests |-> Idle]

\* any request, against one small store
Init ==
    /\ Started
    /\ traffic = AllTraffic
    /\ sections = <<SectionRow(1)>>
    /\ projects = <<ProjectRow(1, 1, ProjectKinds[1])>>

\* root requests to the default tenant, against any store
InitCompose ==
    /\ Started
    /\ traffic = RootTraffic
    /\ sections \in SectionTables
    /\ projects \in ProjectTables

\* a request arrives and the middleware runs; requests are numbered in the
\* order of their arrival
Request(i, ip, hostname, path) ==
    /\ alive
    /\ req[i].pc = "idle"
    /\ \A j \in 1..(i - 1) : req[j].pc # "idle"
    /\ [ip |-> ip, hostname |-> hostname, path |-> path] \in traffic
    /\ req' = [req EXCEPT ![i] =
                 Middleware([Idle EXCEPT !.ip = ip, !.hostname = hostname, !.path = path])]
    /\ UNCHANGED <<traffic, fs, sections, projects, analytics, alive>>

\* the insert of line 96 is executed by the database
InsertDone(i) ==
    /\ alive
    /\ req[i].ins = "pending"
    /\ analytics' = InsertIgnore(analytics, AnalyticsRow(req[i]))
    /\ req' = [req EXCEPT ![i].ins = "done"]
    /\ UNCHANGED <<traffic, fs, sections, projects, alive>>

\* the insert of line 96 fails: the query has no callback, so the error is
\* emitted as an 'error' event of the connection, which has no listener,
\* and the process ends
InsertError(i) ==
    /\ alive
    /\ req[i].ins = "pending"
    /\ req' = [req EXCEPT ![i].ins = "failed"]
    /\ alive' = FALSE
    /\ UNCHANGED <<traffic, fs, sections, projects, analytics>>

\* an unhandled promise rejection warns or ends the process, depending on
\* the Node version
AfterGather(r) ==
    IF r.pc = "rejected" THEN alive' \in BOOLEAN ELSE alive' = alive

\* callback of line 107 with the rows of the sections table
SectionsResult(i) ==
    /\ alive
    /\ req[i].pc = "sections"
    /\ LET n == Len(sections)
           r1 == [req[i] EXCEPT
                    !.pc = "projects", !.secs = sections,
                    !.html = [k \in 1..n |-> Heading(sections[k])],
                    !.rows = [k \in 1..n |-> <<>>],
                    !.pending = FanOut(sections),
                    !.selects = @ + Cardinality(FanOut(sections))]
           r2 == IF AllResolved(r1) THEN Gather(r1) ELSE r1
       IN  /\ req' = [req EXCEPT ![i] = r2]
           /\ AfterGather(r2)
    /\ UNCHANGED <<traffic, fs, sections, projects, analytics>>

\* callback of line 107 with an error: sections is undefined and
\* sections.map throws in the callback, which nothing catches
SectionsError(i) ==
    /\ alive
    /\ req[i].pc = "sections"
    /\ req' = [req EXCEPT ![i].pc = "threw"]
    /\ alive' = FALSE
    /\ UNCHANGED <<traffic, fs, sections, projects, analytics>>

\* callback of line 111 for the k-th section with its projects rows
ProjectsResult(i, k) ==
    /\ alive
    /\ req[i].pc = "projects"
    /\ k \in req[i].pending
    /\ LET rows == SelectWhere(projects, req[i].secs[k].id)
           r1 == [req[i] EXCEPT
                    !.html[k] = Fragment(@, rows), !.rows[k] = rows,
                    !.pending = @ \ {k}, !.order = Append(@, k)]
           r2 == IF AllResolved(r1) THEN Gather(r1) ELSE r1
       IN  /\ req' = [req EXCEPT ![i] = r2]
           /\ AfterGather(r2)
    /\ UNCHANGED <<traffic, fs, sections, projects, analytics>>

\* callback of line 111 with an error: projects.length throws
ProjectsError(i, k) ==
    /\ alive
    /\ req[i].pc = "projects"
    /\ k \in req[i].pending
    /\ req' = [req EXCEPT ![i].pc = "threw"]
    /\ alive' = FALSE
    /\ UNCHANGED <<traffic, fs, sections, projects, analytics>>

Next ==
    \/ \E i \in Requests, ip \in Ips, hostname \in Hostnames, path \in Paths :
          Request(i, ip, hostname, path)
    \/ \E i \in Requests : InsertDone(i)
    \/ \E i \in Requests : InsertError(i)
    \/ \E i \in Requests : SectionsResult(i)
    \/ \E i \in Requests : SectionsError(i)
    \/ \E i \in Requests, k \in 1..MaxSections : ProjectsResult(i, k)
    \/ \E i \in Requests, k \in 1..MaxSections : ProjectsError(i, k)

Spec == Init /\ [][Next]_vars

\* the steps of the homepage composer when every query succeeds
NextCompose ==
    \/ \E i \in Requests, ip \in Ips, hostname \in Hostnames, path \in Paths :
          Request(i, ip, hostname, path)
    \/ \E i \in Requests : SectionsResult(i)
    \/ \E i \in Requests, k \in 1..MaxSections : ProjectsResult(i, k)

SpecCompose == InitCompose /\ [][NextCompose]_vars

\* lines 79-80: the store is shared with other writers; one of them deletes
\* the sections row of an id, and the projects rows that carry the id stay,
\* since the projects table declares no foreign key
DeleteSection(id) ==
    /\ \E k \in DOMAIN sections : sections[k].id = id
    /\ sections' = SelectSeq(sections, LAMBDA s : s.id # id)
    /\ UNCHANGED <<traffic, fs, projects, analytics, alive, req>>

\* root requests to the default tenant, against a store of MaxSections
\* sections and MaxProjects projects, no two of them in the same section
InitFull ==
    /\ Started
    /\ traffic = RootTraffic
    /\ sections \in {t \in SectionTables : Len(t) = MaxSections}
    /\ projects \in {t \in ProjectTables :
                       /\ Len(t) = MaxProjects
                       /\ \A j, k \in DOMAIN t : j # k => t[j].section # t[k].section}

\* the steps of the homepage composer while sections are being deleted
NextWriter ==
    \/ NextCompose
    \/ \E id \in 1..MaxSections : DeleteSection(id)

SpecWriter == InitFull /\ [][NextWriter]_vars

\* the first labels of the tenant hostnames
TenantLabels == {"blog", "nope"}

\* line 150 reads the file system as it is when the request is handled: a
\* tenant directory is created, empty, while the server runs
MkDir(l) ==
    LET appPath == PathJoin("apps", l)
    IN  /\ ~ExistsSync(appPath)
        /\ fs' = [p \in DOMAIN fs \cup {appPath} |->
                    IF p = appPath THEN "<dir>" ELSE fs[p]]
        /\ UNCHANGED <<traffic, sections, projects, analytics, alive, req>>

\* a tenant directory is removed, with all it holds, while the server runs
RmDir(l) ==
    LET appPath == PathJoin("apps", l)
    IN  /\ ExistsSync(appPath)
        /\ fs' = [p \in {q \in DOMAIN fs :
                            q # appPath /\ Find(q, appPath \o "/", 1) # 1} |-> fs[p]]
        /\ UNCHANGED <<traffic, sections, projects, analytics, alive, req>>

\* requests to the tenant hostnames, sent from the server's own host
TenantTraffic ==
    {t \in AllTraffic : t.ip = SelfIp /\ FirstLabel(t.hostname) \in TenantLabels}

\* requests to the tenants, against one small store
InitTenants ==
    /\ Started
    /\ traffic = TenantTraffic
    /\ sections = <<SectionRow(1)>>
    /\ projects = <<ProjectRow(1, 1, ProjectKinds[1])>>

\* the steps of the server while tenant directories come and go
NextTenants ==
    \/ NextCompose
    \/ \E l \in TenantLabels : MkDir(l)
    \/ \E l \in TenantLabels : RmDir(l)

SpecTenants == InitTenants /\ [][NextTenants]_vars

\* root requests to the hostnames of the default tenant
DefaultTraffic ==
    {t \in AllTraffic :
        t.ip = SelfIp /\ t.path = "/" /\ FirstLabel(t.hostname) \in Reserved}

\* root requests to the default tenant, against a store of two sections,
\* the older one with a project
InitLive ==
    /\ Started
    /\ traffic = DefaultTraffic
    /\ sections = <<SectionRow(2), SectionRow(1)>>
    /\ projects = <<ProjectRow(1, 1, ProjectKinds[1])>>

\* the callbacks of the queries whose result has arrived
Callbacks ==
    \/ \E i \in Requests : SectionsResult(i)
    \/ \E i \in Requests, k \in 1..MaxSections : ProjectsResult(i, k)

\* every query gets its result, and the event loop goes on running the
\* callbacks that are ready as long as there is one
Fairness == WF_vars(Callbacks)

\* the homepage composer when every query completes successfully
SpecLive == InitLive /\ [][NextCompose]_vars /\ Fairness

(* ------------------------- reading the markup ------------------------- *)
StartsWith(s, p) == Len(s) >= Len(p) /\ SubSeq(s, 1, Len(p)) = p

EndsWith(s, p) == Len(s) >= Len(p) /\ SubSeq(s, Len(s) - Len(p) + 1, Len(s)) = p

\* s without its first n characters
Drop(s, n) == SubSeq(s, n + 1, Len(s))

\* what is read from markup that is not of the expected form
Unreadable == [ok |-> FALSE]

\* reads `open` text `close` at the start of s: the text and what follows
ReadElement(s, open, close) ==
    IF ~StartsWith(s, open) THEN [ok |-> FALSE, text |-> "", rest |-> s]
    ELSE LET e == Find(s, close, Len(open) + 1)
         IN  IF e = 0 THEN [ok |-> FALSE, text |-> "", rest |-> s]
             ELSE [ok |-> TRUE, text |-> SubSeq(s, Len(open) + 1, e - 1),
                   rest |-> Drop(s, e + Len(close) - 1)]

\* reads one list item: its title, the target of its "github" link and the
\* target of its "link" link, each link NULL when absent, links in that order
ReadItem(item) ==
    LET title == ReadElement(item, "<li><div class=\"wrapper\"><span>", "</span>")
        github == ReadElement(title.rest, "<a class=\"github\" href=\"",
                              "\" target=\"_blank\">")
        afterGithub == IF github.ok THEN github.rest ELSE title.rest
        link == ReadElement(afterGithub, "<a class=\"link\" href=\"", "\"></a>")
        afterLink == IF link.ok THEN link.rest ELSE afterGithub
    IN  IF title.ok /\ afterLink = "</div></li>"
        THEN [ok |-> TRUE, title |-> title.text,
              github |-> IF github.ok THEN Some(github.text) ELSE NULL,
              link |-> IF link.ok THEN Some(link.text) ELSE NULL]
        ELSE Unreadable

RECURSIVE CutAt(_, _, _)
\* the pieces of s from position `from` on that end at each position of
\* `ends`, then what is left of s, if anything
CutAt(s, from, ends) ==
    IF ends = {}
    THEN IF from > Len(s) THEN <<>> ELSE <<SubSeq(s, from, Len(s))>>
    ELSE LET e == CHOOSE k \in ends : \A j \in ends : k <= j
         IN  <<SubSeq(s, from, e)>> \o CutAt(s, e + 1, ends \ {e})

\* the pieces of s that end at each "</li>"
SplitItems(s) ==
    CutAt(s, 1, {k + 4 : k \in {j \in 1..(Len(s) - 4) : SubSeq(s, j, j + 4) = "</li>"}})

\* reads a fragment: the heading's text, whether a list follows it, and the
\* list's items
ReadFragment(html) ==
    LET heading == ReadElement(html, "<h2>", "</h2>")
        open == "<ul class=\"projects\">"
        list == heading.rest
    IN  IF ~heading.ok THEN Unreadable
        ELSE IF list = ""
        THEN [ok |-> TRUE, heading |-> heading.text, list |-> FALSE, items |-> <<>>]
        ELSE IF StartsWith(list, open) /\ EndsWith(Drop(list, Len(open)), "</ul>")
        THEN [ok |-> TRUE, heading |-> heading.text, list |-> TRUE,
              items |-> SplitItems(SubSeq(list, Len(open) + 1, Len(list) - 5))]
        ELSE Unreadable

\* the requests that have received a 200 from the composer
Composed == {i \in Requests : req[i].pc = "done" /\ req[i].status = 200}

\* the fragments whose project query has returned: <<request, position>>
Rendered ==
    {ik \in Requests \X (1..MaxSections) :
        /\ req[ik[1]].pc \in {"projects", "done", "rejected", "threw"}
        /\ ik[2] \in DOMAIN req[ik[1]].html
        /\ ik[2] \notin req[ik[1]].pending}

(* ------------------------------- claims ------------------------------- *)

\* C1: the content set on the #sections container of a composed response is
\* the per-section fragments joined with "<br/>" in the order the sections
\* query returned the sections, whatever the order in which the project
\* queries completed.
SectionOrderPreserved ==
    \A i \in Composed :
        LET r == req[i]
        IN  r.document.inner =
              Join([k \in DOMAIN r.secs |-> Fragment(Heading(r.secs[k]), r.rows[k])],
                   "<br/>")

\* a composed response whose project queries completed last-section-first
\* and whose sections have different fragments
OutOfOrderCompletion ==
    \E i \in Composed :
        /\ Len(req[i].order) >= 2
        /\ req[i].order[1] = Len(req[i].secs)
        /\ req[i].html[1] # req[i].html[Len(req[i].html)]

\* C2: a fragment starts with the heading of its section; it has list markup
\* if and only if the project query returned at least one row, and then one
\* list item per row, in the order of the rows, each holding its row's title;
\* with no row it is the heading alone.
FragmentShape ==
    \A ik \in Rendered :
        LET r == req[ik[1]]
            html == r.html[ik[2]]
            rows == r.rows[ik[2]]
            title == r.secs[ik[2]].title[1]
            f == ReadFragment(html)
        IN  /\ f.ok
            /\ f.heading = title
            /\ f.list = (Len(rows) > 0)
            /\ Len(f.items) = Len(rows)
            /\ Len(rows) = 0 => html = "<h2>" \o title \o "</h2>"
            /\ \A j \in DOMAIN rows :
                 StartsWith(f.items[j],
                            "<li><div class=\"wrapper\"><span>" \o rows[j].title[1] \o "</span>")

\* one request holds a rendered fragment with two list items and one with
\* no list
ListAndNoList ==
    \E i \in Requests : \E k1, k2 \in 1..MaxSections :
        /\ <<i, k1>> \in Rendered /\ <<i, k2>> \in Rendered
        /\ Len(req[i].rows[k1]) = 2
        /\ Len(req[i].rows[k2]) = 0

NonEmpty(v) == v # NULL /\ v # Some("")

\* C3: a list item holds the title, then a "github" link to repo iff repo is
\* non-empty, then a "link" link to url iff url is non-empty; with neither it
\* holds the title only; equal inputs render equal fragments; the scenario
\* of section "Tools" with the one project "Widget" renders the given text.
ProjectItemShape ==
    /\ \A ik \in Rendered :
         LET r == req[ik[1]]
             rows == r.rows[ik[2]]
             items == ReadFragment(r.html[ik[2]]).items
         IN  \A j \in DOMAIN rows :
               LET p == rows[j]
               IN  /\ ReadItem(items[j]) =
                        [ok |-> TRUE, title |-> p.title[1],
                         github |-> IF NonEmpty(p.repo) THEN p.repo ELSE NULL,
                         link |-> IF NonEmpty(p.url) THEN p.url ELSE NULL]
                   /\ ~NonEmpty(p.repo) /\ ~NonEmpty(p.url) =>
                        items[j] = "<li><div class=\"wrapper\"><span>" \o p.title[1]
                                     \o "</span></div></li>"
    /\ \A ik1, ik2 \in Rendered :
         (/\ req[ik1[1]].secs[ik1[2]] = req[ik2[1]].secs[ik2[2]]
          /\ req[ik1[1]].rows[ik1[2]] = req[ik2[1]].rows[ik2[2]])
         => req[ik1[1]].html[ik1[2]] = req[ik2[1]].html[ik2[2]]
    /\ \A ik \in Rendered :
         (/\ req[ik[1]].secs[ik[2]] = [id |-> 1, title |-> Some("Tools")]
          /\ req[ik[1]].rows[ik[2]] =
                <<[id |-> 1, section |-> 1, title |-> Some("Widget"),
                   url |-> Some("http://w"), repo |-> NULL]>>)
         => req[ik[1]].html[ik[2]] =
              "<h2>Tools</h2><ul class=\"projects\"><li><div class=\"wrapper\"><span>Widget</span><a class=\"link\" href=\"http://w\"></a></div></li></ul>"

\* two requests hold the same section rendered from the same rows, one of
\* which has both a repo and a url
BothLinksRenderedTwice ==
    \E ik1, ik2 \in Rendered :
        /\ ik1[1] # ik2[1]
        /\ req[ik1[1]].secs[ik1[2]] = req[ik2[1]].secs[ik2[2]]
        /\ req[ik1[1]].rows[ik1[2]] = req[ik2[1]].rows[ik2[2]]
        /\ \E j \in DOMAIN req[ik1[1]].rows[ik1[2]] :
             LET p == req[ik1[1]].rows[ik1[2]][j]
             IN  NonEmpty(p.repo) /\ NonEmpty(p.url)

\* the requests whose middleware has run
Handled == {i \in Requests : req[i].pc # "idle"}

\* the requests rejected because no tenant was resolved
Rejected ==
    {i \in Handled : req[i].pc = "done" /\ req[i].status = 404 /\ req[i].dir = NULL}

\* the hostname is the label l alone or l followed by further labels
HasFirstLabel(hostname, l) == hostname = l \/ StartsWith(hostname, l \o ".")

\* the label names a directory directly under the apps root
IsTenantDirectory(l) ==
    /\ l # ""
    /\ ("apps/" \o l) \in DOMAIN fs
    /\ fs["apps/" \o l] = "<dir>"

\* C4 (as claimed): a request whose first label is not reserved is served
\* from apps/<label> when that is an existing subdirectory of the apps root;
\* for every other label, the empty one included, it gets 404 with an empty
\* body, no template is read and no query is issued.
TenantOrNotFound ==
    \A i \in Handled :
        LET r == req[i]
            l == FirstLabel(r.hostname)
        IN  l \notin Reserved =>
              IF IsTenantDirectory(l)
              THEN r.dir = Some("apps/" \o l)
              ELSE /\ r.pc = "done" /\ r.status = 404 /\ r.body = ""
                   /\ r.dir = NULL
                   /\ r.document = NoDocument
                   /\ r.selects = 0

\* C5: a hostname whose first label is "jessesolomon" or "localhost" resolves
\* to the default root "public", whatever labels follow and whether or not
\* the apps root holds a directory of that name.
ReservedServedFromPublic ==
    \A i \in Handled :
        (HasFirstLabel(req[i].hostname, "jessesolomon")
            \/ HasFirstLabel(req[i].hostname, "localhost"))
        => req[i].dir = Some("public")

\* "localhost" was served from public although apps/localhost exists, and
\* "jessesolomon.dev" was served from public
ReservedRequestsServed ==
    /\ ExistsSync("apps/localhost")
    /\ \E i \in Handled : req[i].hostname = "localhost" /\ req[i].dir = Some("public")
    /\ \E i \in Handled : req[i].hostname = "jessesolomon.dev" /\ req[i].dir = Some("public")

\* C6 (as claimed): the analytics table holds at most one row per hash.
OneRowPerHash ==
    \A t \in BagToSet(analytics) :
        /\ CopiesIn(t, analytics) = 1
        /\ \A u \in BagToSet(analytics) : u.hash = t.hash => u = t

\* C7: no request from the server's own address issues an analytics insert,
\* and no stored row has a hash made from that address.
SelfNeverRecorded ==
    /\ \A i \in Requests : req[i].ip = SelfIp => req[i].ins = "none"
    /\ \A t \in BagToSet(analytics) : ~StartsWith(t.hash, SelfIp \o "@")

\* a request from the server's own address has been handled while the table
\* holds a row of another visitor
SelfRequestAmongRecorded ==
    /\ \E i \in Handled : req[i].ip = SelfIp
    /\ analytics # EmptyBag

\* C9 (as claimed): a request rejected with 404 because its tenant directory
\* does not exist causes no analytics insert.
RejectedNotRecorded ==
    \A i \in Rejected : req[i].ins = "none"

\* C9 (amended): the insert is issued before the tenant is resolved, so a
\* request rejected with 404 has issued it exactly when its visitor address
\* is not the server's own.
RejectedRecordedUnlessSelf ==
    \A i \in Rejected : (req[i].ins # "none") <=> (req[i].ip # SelfIp)

\* a rejected request whose row has been stored
RejectedRequestStored ==
    \E i \in Rejected :
        /\ req[i].ins = "done"
        /\ BagIn(AnalyticsRow(req[i]), analytics)

\* C8: when the sections query returns no section, no project query is
\* issued, the container content is the empty string and the request is
\* answered with status 200 and the serialized document.
NoSectionsStillAnswered ==
    \A i \in Requests :
        LET r == req[i]
        IN  (/\ r.pc \in {"projects", "done", "rejected"}
             /\ r.selects > 0
             /\ r.secs = <<>>
             /\ r.document.sectionsElement)
            => /\ r.selects = 1
               /\ r.pc = "done"
               /\ r.status = 200
               /\ r.ctype = "text/html"
               /\ r.document.inner = ""
               /\ r.body = r.document.before \o r.document.after

\* a request answered from an empty sections table
EmptyHomepageSent ==
    \E i \in Composed : sections = <<>> /\ req[i].secs = <<>> /\ req[i].selects = 1

\* C10 (as claimed): the request whose query failed receives a server error
\* and the process keeps serving the other requests.
QueryFailureIsRequestLocal ==
    \A i \in Requests :
        req[i].pc = "threw" => (req[i].status = 500 /\ alive)

\* C11 (as claimed): the analytics insert never alters a response: when it
\* fails, the failure is discarded and the process goes on serving, so the
\* responses still to be sent are sent as if it had succeeded.
InsertFailureDiscarded ==
    \A i \in Requests : req[i].ins = "failed" => alive

\* C12: for a resolved tenant the composer runs exactly when the path is
\* "/": a root request reads the template and queries the sections (or
\* fails reading the template), and a request for any other path is
\* answered by static file serving from the tenant directory, with no
\* template parsed and no query issued.
ComposerOnlyForRoot ==
    \A i \in Requests :
        LET r == req[i]
        IN  (r.pc # "idle" /\ r.dir # NULL) =>
              IF r.path = "/"
              THEN /\ r.pc # "static"
                   /\ r.selects >= 1 \/ r.status = 500
              ELSE LET file == r.dir[1] \o r.path
                   IN  /\ r.pc = "static"
                       /\ r.document = NoDocument
                       /\ r.selects = 0 /\ r.secs = <<>> /\ r.rows = <<>>
                       /\ IF ExistsSync(file) /\ fs[file] # "<dir>"
                          THEN r.status = 200 /\ r.body = fs[file]
                          ELSE r.status = 404

\* one tenant has composed its homepage for "/" and served a file for
\* another path
RootComposedOtherPathServed ==
    \E i, j \in Requests :
        /\ req[i].dir # NULL /\ req[j].dir = req[i].dir
        /\ req[i].path = "/" /\ i \in Composed
        /\ req[j].path # "/" /\ req[j].pc = "static" /\ req[j].status = 200

\* the positions whose project query has returned
Completed(r) == {r.order[k] : k \in 1..Len(r.order)}

\* the requests whose sections query has returned its rows
PastSections ==
    {i \in Requests :
        \/ req[i].pc = "projects"
        \/ req[i].pc \in {"done", "rejected"} /\ req[i].selects > 0}

\* C13: a root request has no response while one of its project queries is
\* still in flight, so a query that never completes leaves it unanswered;
\* a composed response has consumed the result of every project query.
FanIn ==
    \A i \in Requests :
        LET r == req[i]
        IN  /\ (r.pc \in {"sections", "projects"} \/ r.pending # {}) =>
                 r.status = 0 /\ r.body = "" /\ r.ctype = ""
            /\ (i \in Composed) =>
                 r.pending = {} /\ Completed(r) = 1..Len(r.secs)

\* a request of several sections with one result consumed and another still
\* in flight, and no response
PartlyCompletedUnanswered ==
    \E i \in Requests :
        /\ req[i].pc = "projects"
        /\ req[i].order # <<>> /\ req[i].pending # {}
        /\ req[i].status = 0

\* C14: a render issues one sections query and, when it has returned n
\* sections, n project queries, one for each section: every section's query
\* is either in flight or completed, never both and never twice, so all of
\* them are issued before the first result is consumed.
FanOutOnePerSection ==
    \A i \in Requests :
        LET r == req[i]
        IN  /\ r.pc = "sections" =>
                 r.selects = 1 /\ r.pending = {} /\ r.order = <<>>
            /\ (i \in PastSections) =>
                 /\ r.selects = 1 + Len(r.secs)
                 /\ r.pending \cup Completed(r) = 1..Len(r.secs)
                 /\ r.pending \cap Completed(r) = {}
                 /\ Cardinality(Completed(r)) = Len(r.order)

\* the project queries of several sections all in flight, none consumed
AllProjectQueriesInFlight ==
    \E i \in Requests :
        /\ req[i].pc = "projects"
        /\ Len(req[i].secs) >= 2
        /\ req[i].order = <<>>
        /\ req[i].pending = 1..Len(req[i].secs)
        /\ req[i].selects = 1 + Len(req[i].secs)

\* C15: whatever the interleaving of the callbacks of concurrent root
\* requests, the body of each response is its own tenant's template with,
\* as content of the container, the fragments of the sections its own
\* sections query returned, each with the rows its own project query
\* returned for that section.
IndependentCycles ==
    \A i \in Composed :
        LET r == req[i]
            template == Parse(fs[r.dir[1] \o "/index.html"])
            own == [k \in DOMAIN r.secs |-> Fragment(Heading(r.secs[k]), r.rows[k])]
        IN  /\ r.body = template.before \o Join(own, "<br/>") \o template.after
            /\ \A k \in DOMAIN r.rows : \A j \in DOMAIN r.rows[k] :
                 r.rows[k][j].section = r.secs[k].id

\* one request has been answered while another, which got a different list
\* of sections, is still waiting for a project query
ConcurrentRequestsDiffer ==
    \E i \in Requests, j \in Composed :
        /\ req[i].pc = "projects"
        /\ req[i].order # <<>>
        /\ req[i].secs # req[j].secs
        /\ req[j].secs # <<>>

\* C16 (as claimed): when a project query completes for a section whose row
\* is no longer in the sections table, it returns no row, so the fragment of
\* that section is its heading alone.
DeletedSectionShowsNoList ==
    [][\A i \in Requests : \A k \in req[i].pending :
          (/\ k \notin req'[i].pending
           /\ \A j \in DOMAIN sections : sections[j].id # req[i].secs[k].id)
          => (/\ req'[i].rows[k] = <<>>
              /\ req'[i].html[k] = Heading(req[i].secs[k]))]_vars

\* C17: each request for a tenant hostname is resolved against the file
\* system as it is when the request is handled: it is served from the
\* tenant directory if that directory exists then, and rejected with 404 if
\* it does not, whatever earlier requests for the tenant got.
TenantResolvedAfresh ==
    [][\A i \in Requests :
          (req[i].pc = "idle" /\ req'[i].pc # "idle"
             /\ FirstLabel(req'[i].hostname) \in TenantLabels)
          => LET appPath == PathJoin("apps", FirstLabel(req'[i].hostname))
             IN  IF appPath \in DOMAIN fs
                 THEN req'[i].dir = Some(appPath)
                 ELSE /\ req'[i].dir = NULL
                      /\ req'[i].pc = "done" /\ req'[i].status = 404]_vars

\* a tenant was rejected with 404 and, its directory having been created,
\* a later request for it is served from the directory
RejectedThenResolved ==
    \E i, j \in Requests :
        /\ i < j
        /\ req[i].hostname = req[j].hostname
        /\ i \in Rejected
        /\ req[j].pc # "idle" /\ req[j].dir # NULL

\* C18: when its queries all complete successfully, a root request to a
\* tenant whose template has the container is eventually answered with
\* status 200 and the HTML content type, and no request is ever sent more
\* than one response.
RootRequestAnsweredOnce ==
    /\ [](\A i \in Requests : req[i].sent <= 1)
    /\ \A i \in Requests :
         (req[i].pc = "sections" /\ req[i].document.sectionsElement)
           ~> (/\ req[i].pc = "done" /\ req[i].sent = 1
               /\ req[i].status = 200 /\ req[i].ctype = "text/html")

\* a root request of two sections answered once, with 200 and HTML
AnsweredOnce ==
    \E i \in Composed :
        /\ req[i].path = "/" /\ Len(req[i].secs) = 2
        /\ req[i].sent = 1 /\ req[i].ctype = "text/html"

\* C19: a root request to a resolved tenant whose template has no #sections
\* container issues the sections query and, for the sections returned, every
\* project query; it fails only when all of them have completed, and it is
\* never sent a response.
NoContainerNeverAnswered ==
    \A i \in Handled :
        LET r == req[i]
            index == IF r.dir = NULL THEN "" ELSE r.dir[1] \o "/index.html"
        IN  (/\ r.path = "/" /\ r.dir # NULL /\ ExistsSync(index)
             /\ ~Parse(fs[index]).sectionsElement)
            => /\ r.pc \in {"sections", "projects", "rejected", "threw"}
               /\ r.selects >= 1
               /\ r.status = 0 /\ r.sent = 0 /\ r.body = ""
               /\ r.pc = "rejected" =>
                    /\ r.pending = {}
                    /\ Completed(r) = 1..Len(r.secs)
                    /\ r.selects = 1 + Len(r.secs)

\* a request to the tenant without container, failed after its project
\* query completed, with no response
FailedAtInjection ==
    \E i \in Handled :
        /\ req[i].pc = "rejected"
        /\ req[i].dir = Some("apps/blog")
        /\ req[i].order # <<>>
        /\ req[i].sent = 0

====
